---- MODULE Spec2Model ----
(***************************************************************************)
(* Model of the CI utilities of R-swat:                                    *)
(*   cicd/generate-tox-ini.py   version comparison, conda queries, the     *)
(*                              supported-version resolver, the sampler    *)
(*                              and the tox.ini emitter                    *)
(*   cicd/get-server-info.py    the log polling loop                       *)
(*   cicd/promote-release-candidate.py   the promotion of a release        *)
(*                              candidate to a public release              *)
(* Python strings are modelled as sequences of one-character strings, so   *)
(* that split, startswith, regular expressions, int() and sorted() are     *)
(* computed the way the interpreter computes them.                         *)
(***************************************************************************)
EXTENDS Integers, Sequences, FiniteSets, TLC

VARIABLES
    fn, arg_ver, arg_struct, arg_specs, ret,
    pc, family, pkg_idx, resp, r_base_vers, info, subset, template, tox_out,
    log_pc, iters, retries, environ, pid_file, stdout, stderr, exit_status,
    promo_pc, tags, releases, rc_assets, asset_idx, uploads, deleted

pure_vars == <<fn, arg_ver, arg_struct, arg_specs, ret>>
tox_vars == <<pc, family, pkg_idx, resp, r_base_vers, info, subset, template, tox_out>>
log_vars == <<log_pc, iters, retries, environ, pid_file, stdout, stderr, exit_status>>
promo_vars == <<promo_pc, tags, releases, rc_assets, asset_idx, uploads, deleted>>
vars == <<pure_vars, tox_vars, log_vars, promo_vars>>

-----------------------------------------------------------------------------
(* Bounds                                                                  *)

MaxVerLen == 3
MaxSpecs == 2
MaxTemplateLen == 3
MaxRetries == 3
MaxAssets == 2

-----------------------------------------------------------------------------
(* Python str / list primitives                                            *)

Digits == {"0", "1", "2", "3", "4", "5", "6", "7", "8", "9"}

DigitVal(c) ==
    CASE c = "0" -> 0 [] c = "1" -> 1 [] c = "2" -> 2 [] c = "3" -> 3
      [] c = "4" -> 4 [] c = "5" -> 5 [] c = "6" -> 6 [] c = "7" -> 7
      [] c = "8" -> 8 [] c = "9" -> 9

DigitChar(d) ==
    CASE d = 0 -> "0" [] d = 1 -> "1" [] d = 2 -> "2" [] d = 3 -> "3"
      [] d = 4 -> "4" [] d = 5 -> "5" [] d = 6 -> "6" [] d = 7 -> "7"
      [] d = 8 -> "8" [] d = 9 -> "9"

\* Code point of a character; only the order matters (str comparison).
Ord(c) ==
    CASE c = " " -> 32 [] c = "!" -> 33 [] c = "*" -> 42 [] c = "," -> 44
      [] c = "-" -> 45 [] c = "." -> 46
      [] c \in Digits -> 48 + DigitVal(c)
      [] c = "<" -> 60 [] c = "=" -> 61 [] c = ">" -> 62
      [] c = "[" -> 91 [] c = "]" -> 93
      [] c = "a" -> 97 [] c = "b" -> 98 [] c = "c" -> 99 [] c = "d" -> 100
      [] c = "e" -> 101 [] c = "f" -> 102 [] c = "i" -> 105 [] c = "l" -> 108
      [] c = "m" -> 109 [] c = "n" -> 110 [] c = "o" -> 111 [] c = "p" -> 112
      [] c = "r" -> 114 [] c = "s" -> 115 [] c = "t" -> 116 [] c = "v" -> 118
      [] c = "x" -> 120 [] c = "y" -> 121 [] c = "|" -> 124
      [] OTHER -> 127

\* s[i:] for 1-based i
Drop(s, i) == SubSeq(s, i, Len(s))

\* s.startswith(p)
StartsWith(s, p) == Len(s) >= Len(p) /\ SubSeq(s, 1, Len(p)) = p

\* position of the first occurrence of character c in s, 0 when absent
RECURSIVE IndexOf(_, _, _)
IndexOf(s, c, i) ==
    IF i > Len(s) THEN 0
    ELSE IF s[i] = c THEN i
    ELSE IndexOf(s, c, i + 1)

\* s.split(c) for a one-character separator: always at least one piece
RECURSIVE Split(_, _)
Split(s, c) ==
    LET i == IndexOf(s, c, 1) IN
    IF i = 0 THEN <<s>>
    ELSE <<SubSeq(s, 1, i - 1)>> \o Split(Drop(s, i + 1), c)

\* sep.join(parts)
RECURSIVE Join(_, _)
Join(parts, sep) ==
    IF Len(parts) = 0 THEN <<>>
    ELSE IF Len(parts) = 1 THEN parts[1]
    ELSE parts[1] \o sep \o Join(Tail(parts), sep)

\* s.replace(c, '') for a one-character c
RECURSIVE Remove(_, _)
Remove(s, c) ==
    IF s = <<>> THEN <<>>
    ELSE IF Head(s) = c THEN Remove(Tail(s), c)
    ELSE <<Head(s)>> \o Remove(Tail(s), c)

\* length of the longest prefix of s made of characters of set cs
RECURSIVE SpanLen(_, _)
SpanLen(s, cs) ==
    IF s = <<>> \/ Head(s) \notin cs THEN 0
    ELSE 1 + SpanLen(Tail(s), cs)

\* re.findall(r'(\d+)', s): the maximal digit runs of s, left to right
RECURSIVE DigitRuns(_)
DigitRuns(s) ==
    IF s = <<>> THEN <<>>
    ELSE LET n == SpanLen(s, Digits) IN
         IF n = 0 THEN DigitRuns(Tail(s))
         ELSE <<SubSeq(s, 1, n)>> \o DigitRuns(Drop(s, n + 1))

\* int(x) accepts x: over the alphabet of the model (no sign, blank or
\* underscore characters) exactly the non-empty digit strings
IsIntLiteral(x) == x # <<>> /\ \A i \in 1..Len(x) : x[i] \in Digits

\* int(x) for a digit string
RECURSIVE ParseInt(_)
ParseInt(x) ==
    IF x = <<>> THEN 0
    ELSE 10 * ParseInt(SubSeq(x, 1, Len(x) - 1)) + DigitVal(x[Len(x)])

\* f'{n}' for a non-negative int
RECURSIVE FormatInt(_)
FormatInt(n) ==
    IF n < 10 THEN <<DigitChar(n)>>
    ELSE FormatInt(n \div 10) \o <<DigitChar(n % 10)>>

\* Python tuple comparison a < b (lexicographic, a proper prefix is smaller)
RECURSIVE TupleLt(_, _)
TupleLt(a, b) ==
    IF b = <<>> THEN FALSE
    ELSE IF a = <<>> THEN TRUE
    ELSE IF Head(a) # Head(b) THEN Head(a) < Head(b)
    ELSE TupleLt(Tail(a), Tail(b))

\* Python str comparison a < b (lexicographic by code point)
RECURSIVE StrLt(_, _)
StrLt(a, b) ==
    IF b = <<>> THEN FALSE
    ELSE IF a = <<>> THEN TRUE
    ELSE IF Head(a) # Head(b) THEN Ord(Head(a)) < Ord(Head(b))
    ELSE StrLt(Tail(a), Tail(b))

\* sorted(S) for a set of strings
RECURSIVE SortedStrs(_)
SortedStrs(S) ==
    IF S = {} THEN <<>>
    ELSE LET m == CHOOSE x \in S : \A y \in S \ {x} : StrLt(x, y)
         IN <<m>> \o SortedStrs(S \ {m})

\* all sequences over S of length at most n
RECURSIVE SeqsUpTo(_, _)
SeqsUpTo(S, n) ==
    IF n = 0 THEN {<<>>}
    ELSE LET shorter == SeqsUpTo(S, n - 1)
         IN shorter \cup {Append(s, x) : s \in shorter, x \in S}

Range(s) == {s[i] : i \in 1..Len(s)}

-----------------------------------------------------------------------------
(* generate-tox-ini.py: version comparison                                 *)

\* version_key: val.split('a')[0] + '.0.0', then the first three digit runs
version_key_pad ==
    <<".", "0", ".", "0">>

version_key(val) ==
    LET padded == Split(val, "a")[1] \o version_key_pad
        runs == DigitRuns(padded)
        nums == [i \in 1..Len(runs) |-> ParseInt(runs[i])]
    IN SubSeq(nums, 1, IF Len(nums) < 3 THEN Len(nums) ELSE 3)

\* re.search(r'\.?\*$', val)
EndsWithWildcard(val) == val # <<>> /\ val[Len(val)] = "*"

\* re.sub(r'\.?\*$', '', val): drop the final '*' and a '.' right before it
StripWildcard(val) ==
    LET n == Len(val) IN
    IF n >= 2 /\ val[n - 1] = "." THEN SubSeq(val, 1, n - 2)
    ELSE SubSeq(val, 1, n - 1)

\* the operator written in front of the upper bound of an expanded wildcard
WildcardUpperOp ==
    <<"<", "=">>

\* one iteration of the loop of expand_wildcards; int(x) raises ValueError
\* on a component that is not a number
expand_wildcard(val) ==
    IF EndsWithWildcard(val) THEN
        LET stripped == StripWildcard(val)
            parts == Split(stripped, ".")
        IN IF \E i \in 1..Len(parts) : ~IsIntLiteral(parts[i])
           THEN [raised |-> TRUE, val |-> <<>>]
           ELSE LET nums == [i \in 1..Len(parts) |-> ParseInt(parts[i])]
                    next_val == [nums EXCEPT ![Len(nums)] = @ + 1]
                    strs == [i \in 1..Len(next_val) |-> FormatInt(next_val[i])]
                IN [raised |-> FALSE,
                    val |-> <<">", "=">> \o stripped \o <<",">> \o WildcardUpperOp
                            \o Join(strs, <<".">>) \o <<"a", "0">>]
    ELSE [raised |-> FALSE, val |-> val]

expand_wildcards(vals) ==
    LET each == [i \in 1..Len(vals) |-> expand_wildcard(vals[i])] IN
    IF \E i \in 1..Len(vals) : each[i].raised
    THEN [raised |-> TRUE, val |-> <<>>]
    ELSE [raised |-> FALSE, val |-> [i \in 1..Len(vals) |-> each[i].val]]

OperChars == {"<", ">", "=", "!"}

\* \S of the regular expression: the alphabet holds one blank character
IsNonSpace(s) == \A i \in 1..Len(s) : s[i] # " "

\* re.findall(r'^([<>=!]*)(\S+)$', op)[0]: the operator group is greedy and
\* gives back one character when nothing would be left for the version
ParseOp(op) ==
    LET n == SpanLen(op, OperChars)
        k == IF n = Len(op) THEN n - 1 ELSE n
    IN IF op = <<>> \/ ~IsNonSpace(op)
       THEN [raised |-> TRUE, oper |-> <<>>, ver |-> <<>>]
       ELSE [raised |-> FALSE, oper |-> SubSeq(op, 1, k), ver |-> Drop(op, k + 1)]

\* the operator substituted for an empty one (line 80)
DefaultOper ==
    <<">", "=">>

\* lines 77-80
NormalizeOper(oper) ==
    IF oper = <<"=">> THEN <<"=", "=">>
    ELSE IF oper = <<>> THEN DefaultOper
    ELSE oper

\* operators the evaluated expression accepts between two tuples
EvalOpers == {<<"<">>, <<"<", "=">>, <<">">>, <<">", "=">>, <<"=", "=">>, <<"!", "=">>}

\* eval of  '{a} {oper} {b}'  for tuples a and b
EvalCompare(a, oper, b) ==
    CASE oper = <<"<">> -> TupleLt(a, b)
      [] oper = <<"<", "=">> -> TupleLt(a, b) \/ a = b
      [] oper = <<">">> -> TupleLt(b, a)
      [] oper = <<">", "=">> -> TupleLt(b, a) \/ a = b
      [] oper = <<"=", "=">> -> a = b
      [] oper = <<"!", "=">> -> a # b
      [] OTHER -> FALSE

\* lines 72-83 for one spec: [raised, val]
RECURSIVE EvalOr(_, _)
EvalOr(pkg_ver, ops) ==
    IF ops = <<>> THEN FALSE
    ELSE LET p == ParseOp(Head(ops))
         IN EvalCompare(pkg_ver, NormalizeOper(p.oper), version_key(p.ver))
            \/ EvalOr(pkg_ver, Tail(ops))

RECURSIVE EvalAndAny(_, _)
EvalAndAny(pkg_ver, aps) ==
    IF aps = <<>> THEN FALSE
    ELSE EvalOr(pkg_ver, Split(Head(aps), "|")) \/ EvalAndAny(pkg_ver, Tail(aps))

RECURSIVE EvalAnd(_, _)
EvalAnd(pkg_ver, aps) ==
    IF aps = <<>> THEN TRUE
    ELSE EvalOr(pkg_ver, Split(Head(aps), "|")) /\ EvalAnd(pkg_ver, Tail(aps))

SpecRaises(spec) ==
    \E ap \in Range(Split(spec, ",")) : \E op \in Range(Split(ap, "|")) :
        LET p == ParseOp(op) IN p.raised \/ NormalizeOper(p.oper) \notin EvalOpers

\* check_version: the specs are evaluated in order; the first true one
\* returns True, an error in a spec reached before that propagates
RECURSIVE CheckSpecs(_, _)
CheckSpecs(pkg_ver, specs) ==
    IF specs = <<>> THEN [raised |-> FALSE, val |-> FALSE]
    ELSE IF SpecRaises(Head(specs)) THEN [raised |-> TRUE, val |-> FALSE]
    ELSE IF EvalAnd(pkg_ver, Split(Head(specs), ",")) THEN [raised |-> FALSE, val |-> TRUE]
    ELSE CheckSpecs(pkg_ver, Tail(specs))

check_version(pkg_ver, specs) ==
    LET expanded == expand_wildcards(specs) IN
    IF expanded.raised THEN [raised |-> TRUE, val |-> FALSE]
    ELSE CheckSpecs(version_key(pkg_ver), expanded.val)

-----------------------------------------------------------------------------
(* Inputs of the version functions                                         *)

\* '.'.join(f'{x}' for x in t): the text of a dotted version
V(t) == Join([i \in 1..Len(t) |-> FormatInt(t[i])], <<".">>)

A0 == <<"a", "0">>

NoOp == <<>>
OpEq1 == <<"=">>
OpEq == <<"=", "=">>
OpNe == <<"!", "=">>
OpLt == <<"<">>
OpLe == <<"<", "=">>
OpGt == <<">">>
OpGe == <<">", "=">>

\* a written subclause: operator text and version text
Sub(oper, ver) == [oper |-> oper, ver |-> ver]

\* a written spec: comma-separated clauses of pipe-separated subclauses
Clauses(cs) == [wild |-> FALSE, prefix |-> <<>>, clauses |-> cs]

\* a written wildcard spec such as 1.2.*
Wild(prefix) == [wild |-> TRUE, prefix |-> prefix, clauses |-> <<>>]

RenderSub(s) == s.oper \o s.ver

RenderSpec(sp) ==
    IF sp.wild THEN V(sp.prefix) \o <<".", "*">>
    ELSE Join([i \in 1..Len(sp.clauses) |->
                 Join([j \in 1..Len(sp.clauses[i]) |-> RenderSub(sp.clauses[i][j])],
                      <<"|">>)],
              <<",">>)

RenderSpecs(sps) == [i \in 1..Len(sps) |-> RenderSpec(sps[i])]

SpecPool ==
    { Clauses(<< <<Sub(OpGe, V(<<3, 4, 3>>))>>, <<Sub(OpLt, V(<<4, 0, 0>>) \o A0)>> >>),
      Clauses(<< <<Sub(OpGe, V(<<3, 4, 3>>))>> >>),
      Clauses(<< <<Sub(OpEq, V(<<3, 5, 0>>)), Sub(OpEq, V(<<3, 6, 0>>))>> >>),
      Clauses(<< <<Sub(NoOp, V(<<3, 5>>))>> >>),
      Clauses(<< <<Sub(OpEq1, V(<<3, 4, 2>>))>> >>),
      Clauses(<< <<Sub(OpNe, V(<<3, 5, 0>>))>>,
                 <<Sub(OpLe, V(<<1, 2, 9>>)), Sub(OpGt, V(<<3, 4>>))>> >>),
      Wild(<<1, 2>>),
      Wild(<<3>>) }

CheckVers ==
    { V(<<3, 5, 0>>), V(<<3, 4, 2>>), V(<<3, 6, 0>>), V(<<4, 0, 0>>),
      V(<<1, 2, 0>>), V(<<1, 2, 9>>), V(<<1, 3, 0>>), V(<<1, 1, 9>>),
      V(<<1, 3, 1>>), V(<<3, 10>>) }

VerAlphabet == {"1", "2", ".", "a"}

VerInputs ==
    SeqsUpTo(VerAlphabet, MaxVerLen)
        \cup { V(<<2, 3, 1>>), V(<<3, 4>>) \o A0, V(<<1, 0>>) }

PureInputs ==
    { <<v, <<>>>> : v \in VerInputs }
        \cup { <<v, sps>> : v \in CheckVers, sps \in SeqsUpTo(SpecPool, MaxSpecs) }

None == <<"None">>

\* the output file before it is opened for writing
NoFile == [exists |-> FALSE, lines |-> <<>>]

\* the exit status of a process that has not exited
NoStatus == -1

-----------------------------------------------------------------------------
(* The states of the parts that a specification leaves idle                *)

PureIdle ==
    /\ fn = "none"
    /\ arg_ver = <<>>
    /\ arg_struct = <<>>
    /\ arg_specs = <<>>
    /\ ret = None

ToxIdle ==
    /\ pc = "idle"
    /\ family = "r"
    /\ pkg_idx = 0
    /\ resp = <<>>
    /\ r_base_vers = {}
    /\ info = [r |-> <<>>, mro |-> <<>>]
    /\ subset = [r |-> {}, mro |-> {}]
    /\ template = <<>>
    /\ tox_out = NoFile

LogIdle ==
    /\ log_pc = "idle"
    /\ iters = 0
    /\ retries = 0
    /\ environ = [CASPROTOCOL |-> "unset", CAS_PROTOCOL |-> "unset", REQUIRES_TK |-> "unset"]
    /\ pid_file = [given |-> FALSE, written |-> FALSE]
    /\ stdout = <<>>
    /\ stderr = <<>>
    /\ exit_status = NoStatus

PromoIdle ==
    /\ promo_pc = "idle"
    /\ tags = {}
    /\ releases = {}
    /\ rc_assets = 0
    /\ asset_idx = 0
    /\ uploads = <<>>
    /\ deleted = {}

-----------------------------------------------------------------------------
(* Specification of the version functions: each is applied to an input     *)

InitVer ==
    /\ \E in \in PureInputs :
        /\ arg_ver = in[1]
        /\ arg_struct = in[2]
        /\ arg_specs = RenderSpecs(in[2])
    /\ fn = "none"
    /\ ret = None
    /\ ToxIdle
    /\ LogIdle
    /\ PromoIdle

CallVersionKey ==
    /\ fn = "none"
    /\ fn' = "version_key"
    /\ ret' = [raised |-> FALSE, val |-> version_key(arg_ver)]
    /\ UNCHANGED <<arg_ver, arg_struct, arg_specs, tox_vars, log_vars, promo_vars>>

CallExpandWildcards ==
    /\ fn = "none"
    /\ fn' = "expand_wildcards"
    /\ ret' = expand_wildcards(arg_specs)
    /\ UNCHANGED <<arg_ver, arg_struct, arg_specs, tox_vars, log_vars, promo_vars>>

CallCheckVersion ==
    /\ fn = "none"
    /\ fn' = "check_version"
    /\ ret' = check_version(arg_ver, arg_specs)
    /\ UNCHANGED <<arg_ver, arg_struct, arg_specs, tox_vars, log_vars, promo_vars>>

NextVer ==
    \/ CallVersionKey
    \/ CallExpandWildcards
    \/ CallCheckVersion

SpecVer == InitVer /\ [][NextVer]_vars

-----------------------------------------------------------------------------
(* Properties of the version functions                                     *)

HasDigit(s) == \E i \in 1..Len(s) : s[i] \in Digits

\* C3: version_key never raises and returns exactly three non-negative
\* integers for every input string: (0,0,0) for a string without digits,
\* 2.3.1 -> (2,3,1), 3.4a0 -> (3,4,0), 1.0 -> (1,0,0).
C3_NormalizeYieldsTriple ==
    fn = "version_key" =>
        /\ ~ret.raised
        /\ Len(ret.val) = 3
        /\ \A i \in 1..Len(ret.val) : ret.val[i] \in Nat
        /\ (~HasDigit(arg_ver) => ret.val = <<0, 0, 0>>)
        /\ (arg_ver = V(<<2, 3, 1>>) => ret.val = <<2, 3, 1>>)
        /\ (arg_ver = V(<<3, 4>>) \o A0 => ret.val = <<3, 4, 0>>)
        /\ (arg_ver = V(<<1, 0>>) => ret.val = <<1, 0, 0>>)

\* the leading components of triple t equal prefix p
HasPrefix(t, p) == Len(t) >= Len(p) /\ SubSeq(t, 1, Len(p)) = p

\* C2: a wildcard constraint p.* is satisfied by exactly the versions whose
\* leading components equal p: not by a version below p, and not by one at
\* or above the next prefix (the upper bound is exclusive).
C2_WildcardHalfOpen ==
    (fn = "check_version" /\ Len(arg_struct) = 1 /\ arg_struct[1].wild) =>
        /\ ~ret.raised
        /\ ret.val = HasPrefix(version_key(arg_ver), arg_struct[1].prefix)

\* the comparison a written subclause stands for
SubHolds(ver, s) ==
    LET a == version_key(ver)
        b == version_key(s.ver)
    IN CASE s.oper \in {NoOp, OpGe} -> ~TupleLt(a, b)
         [] s.oper \in {OpEq1, OpEq} -> a = b
         [] s.oper = OpNe -> a # b
         [] s.oper = OpLt -> TupleLt(a, b)
         [] s.oper = OpLe -> ~TupleLt(b, a)
         [] s.oper = OpGt -> TupleLt(b, a)

SpecHolds(ver, sp) ==
    \A j \in 1..Len(sp.clauses) :
        \E k \in 1..Len(sp.clauses[j]) : SubHolds(ver, sp.clauses[j][k])

NoWildcards(sps) == \A i \in 1..Len(sps) : ~sps[i].wild

\* C4: check_version(version, specs) is true exactly when some spec of the
\* list holds, a spec holding iff each comma-separated clause has a true
\* pipe-separated subclause (empty operator is >=, = is ==); an empty list
\* matches nothing.
C4_SatisfiesIsOrOfAndOfOr ==
    (fn = "check_version" /\ NoWildcards(arg_struct)) =>
        /\ ~ret.raised
        /\ ret.val = (\E i \in 1..Len(arg_struct) : SpecHolds(arg_ver, arg_struct[i]))

C4_Witness ==
    /\ fn = "check_version"
    /\ arg_ver = V(<<3, 5, 0>>)
    /\ arg_struct = << Clauses(<< <<Sub(OpEq1, V(<<3, 4, 2>>))>> >>),
                       Clauses(<< <<Sub(OpGe, V(<<3, 4, 3>>))>>,
                                  <<Sub(OpLt, V(<<4, 0, 0>>) \o A0)>> >>) >>
    /\ ret = [raised |-> FALSE, val |-> TRUE]

-----------------------------------------------------------------------------
(* generate-tox-ini.py: the conda query and the resolver                   *)

\* A reply of `conda search --json`: the exit status of the subprocess, the
\* exception_name of an error body ("" when the body has none) and the
\* records listed under the queried package name.
Reply(failed, exception_name, records) ==
    [failed |-> failed, exception_name |-> exception_name, records |-> records]

\* a written dependency of a record: package name, then a spec unless bare
Dep(name, spec) == [name |-> name, bare |-> FALSE, spec |-> spec]
BareDep(name) == [name |-> name, bare |-> TRUE, spec |-> Clauses(<<>>)]

\* a record of the index as written: version text and dependency list
Rec(version, depends) == [version |-> version, depends |-> depends]

RenderDep(d) == IF d.bare THEN d.name ELSE d.name \o <<" ">> \o RenderSpec(d.spec)

\* the record as the JSON gives it: item['version'], item['depends']
RenderRec(r) ==
    [version |-> r.version,
     depends |-> [i \in 1..Len(r.depends) |-> RenderDep(r.depends[i])]]

RenderRecs(rs) == [i \in 1..Len(rs) |-> RenderRec(rs[i])]

\* conda_search with every failure of the subprocess taken as "no package"
conda_search_swallow(reply) ==
    [raised |-> FALSE, val |-> IF reply.failed THEN <<>> ELSE RenderRecs(reply.records)]

\* conda_search: a failed subprocess whose body names PackagesNotFoundError
\* is an empty result, any other failure is raised again
conda_search(reply) ==
    IF reply.failed THEN
        IF reply.exception_name = "PackagesNotFoundError"
        THEN [raised |-> FALSE, val |-> <<>>]
        ELSE [raised |-> TRUE, val |-> <<>>]
    ELSE [raised |-> FALSE, val |-> RenderRecs(reply.records)]

\* the companion packages queried in order (line 117)
CompanionPkgs == <<"r::r-httr", "r::r-jsonlite", "r::r-testthat">>

\* f'{r_base}'
FamilyText(f) == IF f = "r" THEN <<"r">> ELSE <<"m", "r", "o">>

\* f'{r_base}-base'
BaseName(f) == FamilyText(f) \o <<"-", "b", "a", "s", "e">>

\* the floor of line 113
Floor == <<3, 4, 3>>

\* tuple(int(x) for x in ver.split('.')); int raises ValueError
IntTuple(ver) ==
    LET parts == Split(ver, ".") IN
    IF \E i \in 1..Len(parts) : ~IsIntLiteral(parts[i])
    THEN [raised |-> TRUE, val |-> <<>>]
    ELSE [raised |-> FALSE, val |-> [i \in 1..Len(parts) |-> ParseInt(parts[i])]]

\* the floor test of line 113 on a parsed version
BelowFloor(t) == TupleLt(t, Floor)

\* lines 111-115: the versions of the base package that are not below the floor
FloorFilter(out) ==
    IF \E i \in 1..Len(out) : IntTuple(out[i].version).raised
    THEN [raised |-> TRUE, val |-> {}]
    ELSE [raised |-> FALSE,
          val |-> {out[i].version : i \in {j \in 1..Len(out) :
                                            ~BelowFloor(IntTuple(out[j].version).val)}}]

\* rver[0] of line 122: the first dependency that starts with the base name
RECURSIVE FirstBaseDep(_, _)
FirstBaseDep(depends, base) ==
    IF depends = <<>> THEN <<>>
    ELSE IF StartsWith(Head(depends), base) THEN <<Head(depends)>>
    ELSE FirstBaseDep(Tail(depends), base)

\* lines 127-130
DepSpec(rver) ==
    LET pinned == IF rver = <<"m", "r", "o", "-", "b", "a", "s", "e">> THEN <<"m", "r", "o", "-", "b", "a", "s", "e", " ", "=", "=", "3", ".", "4", ".", "3">> ELSE rver
        words == Split(pinned, " ")
    IN words[Len(words)]

\* lines 120-132: pkg_vers, one spec per record that names the base package
RECURSIVE CompanionSpecs(_, _)
CompanionSpecs(out, base) ==
    IF out = <<>> THEN <<>>
    ELSE LET rver == FirstBaseDep(Head(out).depends, base) IN
         (IF rver = <<>> THEN <<>> ELSE <<DepSpec(rver[1])>>)
             \o CompanionSpecs(Tail(out), base)

\* lines 134-137: drop the versions no spec of the companion accepts
CompanionFilter(vers, pkg_vers) ==
    IF \E v \in vers : check_version(v, pkg_vers).raised
    THEN [raised |-> TRUE, val |-> {}]
    ELSE [raised |-> FALSE, val |-> {v \in vers : check_version(v, pkg_vers).val}]

-----------------------------------------------------------------------------
(* Contents the index may answer with                                      *)

NotFoundReply == Reply(TRUE, "PackagesNotFoundError", <<>>)
HttpErrorReply == Reply(TRUE, "CondaHTTPError", <<>>)
EmptyBodyReply == Reply(TRUE, "", <<>>)
Ok(records) == Reply(FALSE, "", records)

\* a record of the base package: only its version matters
BaseRec(version) == Rec(version, <<>>)

RBaseReplies ==
    { NotFoundReply, HttpErrorReply, EmptyBodyReply, Ok(<<>>),
      Ok(<<BaseRec(V(<<3, 4, 2>>)), BaseRec(V(<<3, 4, 3>>)), BaseRec(V(<<3, 5, 0>>))>>),
      Ok(<<BaseRec(V(<<3, 4, 3>>)), BaseRec(V(<<3, 5, 0>>)), BaseRec(V(<<3, 6, 0>>)),
           BaseRec(V(<<3, 10, 0>>))>>),
      Ok(<<BaseRec(V(<<3, 5, 0>>)), BaseRec(V(<<3, 5, 0>>) \o A0)>>),
      Ok(<<BaseRec(V(<<3, 5, 0>>)), BaseRec(V(<<3, 6, 0>>)), BaseRec(V(<<3, 5, 0>>))>>),
      Ok(<<BaseRec(V(<<3, 5>>)), BaseRec(V(<<3, 4>>)), BaseRec(V(<<3, 4, 3, 1>>)),
           BaseRec(V(<<3>>))>>),
      Ok(<<BaseRec(V(<<3, 4, 2>>))>>) }

MroBaseReplies ==
    { NotFoundReply, HttpErrorReply,
      Ok(<<BaseRec(V(<<3, 4, 3>>)), BaseRec(V(<<3, 5, 0>>)), BaseRec(V(<<3, 5, 1>>))>>),
      Ok(<<BaseRec(V(<<3, 4, 3>>))>>),
      Ok(<<BaseRec(V(<<3, 5, 1>>)), BaseRec(V(<<3, 4, 1>>))>>) }

BaseReplies(f) == IF f = "r" THEN RBaseReplies ELSE MroBaseReplies

RecA ==
    Rec(V(<<1, 4, 0>>),
        << BareDep(<<"r", "-", "c", "u", "r", "l">>),
           Dep(<<"r", "-", "b", "a", "s", "e">>, Clauses(<< <<Sub(OpGe, V(<<3, 4, 3>>))>> >>)),
           BareDep(<<"m", "r", "o", "-", "b", "a", "s", "e">>) >>)

RecB ==
    Rec(V(<<1, 4, 1>>),
        << Dep(<<"r", "-", "b", "a", "s", "e">>, Wild(<<3, 5>>)),
           Dep(<<"m", "r", "o", "-", "b", "a", "s", "e">>, Clauses(<< <<Sub(OpGe, V(<<3, 5>>))>>,
                                         <<Sub(OpLt, V(<<3, 6>>) \o A0)>> >>)) >>)

RecC ==
    Rec(V(<<1, 5>>),
        << BareDep(<<"r", "-", "b", "a", "s", "e">>),
           Dep(<<"m", "r", "o", "-", "b", "a", "s", "e">>, Clauses(<< <<Sub(OpGe, V(<<3, 4, 3>>))>> >>)) >>)

RecD ==
    Rec(V(<<0, 9>>), << BareDep(<<"r", "-", "c", "u", "r", "l">>) >>)

RecE ==
    Rec(V(<<1, 6>>),
        << Dep(<<"r", "-", "b", "a", "s", "e">>, Clauses(<< <<Sub(OpGe, V(<<3, 5>>))>>,
                                       <<Sub(OpLt, V(<<3, 6>>)), Sub(OpEq1, V(<<3, 10, 0>>))>> >>)) >>)

CompanionReplies ==
    { NotFoundReply, HttpErrorReply, Ok(<<>>),
      Ok(<<RecA>>), Ok(<<RecB>>), Ok(<<RecC>>), Ok(<<RecD, RecE>>), Ok(<<RecB, RecA>>) }

-----------------------------------------------------------------------------
(* generate-tox-ini.py: one run of main                                    *)

InitTox ==
    /\ pc = "main"
    /\ family = "none"
    /\ pkg_idx = 0
    /\ resp = <<>>
    /\ r_base_vers = {}
    /\ info = [r |-> <<>>, mro |-> <<>>]
    /\ subset = [r |-> {}, mro |-> {}]
    /\ template = <<>>
    /\ tox_out = NoFile
    /\ PureIdle
    /\ LogIdle
    /\ PromoIdle

\* lines 144-145: main calls get_supported_versions for r, then for mro
main_call ==
    /\ pc = "main"
    /\ family \in {"none", "r"}
    /\ family' = IF family = "none" THEN "r" ELSE "mro"
    /\ pc' = "query_base"
    /\ pkg_idx' = 0
    /\ resp' = <<>>
    /\ r_base_vers' = {}
    /\ UNCHANGED <<info, subset, template, tox_out, pure_vars, log_vars, promo_vars>>

\* lines 104-115: the query of the base package and the floor filter
query_base ==
    /\ pc = "query_base"
    /\ \E reply \in BaseReplies(family) :
        LET out == conda_search(reply)
            kept == FloorFilter(out.val)
        IN /\ resp' = <<reply>>
           /\ IF out.raised THEN
                  /\ pc' = "aborted"
                  /\ UNCHANGED <<r_base_vers, info, pkg_idx>>
              ELSE IF out.val = <<>> THEN
                  /\ pc' = "main"
                  /\ info' = [info EXCEPT ![family] = <<>>]
                  /\ UNCHANGED <<r_base_vers, pkg_idx>>
              ELSE IF kept.raised THEN
                  /\ pc' = "aborted"
                  /\ UNCHANGED <<r_base_vers, info, pkg_idx>>
              ELSE
                  /\ pc' = "query_pkg"
                  /\ pkg_idx' = 1
                  /\ r_base_vers' = kept.val
                  /\ UNCHANGED info
    /\ UNCHANGED <<family, subset, template, tox_out, pure_vars, log_vars, promo_vars>>

\* lines 117-139: one turn of the loop over the companion packages; the
\* last turn is followed by the return of the sorted list
query_pkg ==
    /\ pc = "query_pkg"
    /\ \E reply \in CompanionReplies :
        LET out == conda_search(reply)
            pkg_vers == CompanionSpecs(out.val, BaseName(family))
            kept == CompanionFilter(r_base_vers, pkg_vers)
        IN /\ resp' = Append(resp, reply)
           /\ IF out.raised \/ kept.raised THEN
                  /\ pc' = "aborted"
                  /\ UNCHANGED <<r_base_vers, info, pkg_idx>>
              ELSE IF pkg_idx < Len(CompanionPkgs) THEN
                  /\ pc' = "query_pkg"
                  /\ pkg_idx' = pkg_idx + 1
                  /\ r_base_vers' = kept.val
                  /\ UNCHANGED info
              ELSE
                  /\ pc' = "main"
                  /\ r_base_vers' = kept.val
                  /\ info' = [info EXCEPT ![family] = SortedStrs(kept.val)]
                  /\ UNCHANGED pkg_idx
    /\ UNCHANGED <<family, subset, template, tox_out, pure_vars, log_vars, promo_vars>>

\* info[1:-1] of lines 165 and 174
InteriorWhole(l) == l

Interior(l) == SubSeq(l, 2, Len(l) - 1)

\* the values random.choice may return for a family (None when not called)
Picks(l) == IF Len(l) > 2 THEN Range(Interior(l)) ELSE {None}

\* lines 161-165 and 170-174 for one family and one outcome of random.choice
SampleOf(l, pick) ==
    IF l = <<>> THEN {}
    ELSE {l[1], l[Len(l)]} \cup (IF Len(l) > 2 THEN {pick} ELSE {})

\* lines 154-177: the subset of versions to test
main_sample ==
    /\ pc = "main"
    /\ family = "mro"
    /\ \E pick_r \in Picks(info.r), pick_mro \in Picks(info.mro) :
        subset' = [r |-> SampleOf(info.r, pick_r), mro |-> SampleOf(info.mro, pick_mro)]
    /\ pc' = "emit"
    /\ resp' = <<>>
    /\ UNCHANGED <<family, pkg_idx, r_base_vers, info, template, tox_out, pure_vars, log_vars, promo_vars>>

-----------------------------------------------------------------------------
(* generate-tox-ini.py: the emitter                                        *)
(* A file is the sequence of its lines, each without its newline.          *)

\* the driver of line 180
Driver == <<"c", "o", "n", "d", "a">>

TemplateLines ==
    { <<"[", "t", "o", "x", "]">>, <<"e", "n", "v", "l", "i", "s", "t", " ", "=", " ", "f", "o", "o">>, <<" ", " ", " ", " ", "b", "a", "r">>, <<"[", "t", "e", "s", "t", "e", "n", "v", "]">> }

Templates == SeqsUpTo(TemplateLines, MaxTemplateLen)

\* lines 181-192
OutHeader ==
    << <<>>, <<"#">>, <<"#", " ", "B", "E", "G", "I", "N", " ", "G", "E", "N", "E", "R", "A", "T", "E", "D", " ", "E", "N", "V", "I", "R", "O", "N", "M", "E", "N", "T", "S">>, <<"#">>, <<>>,
       <<"[", "t", "e", "s", "t", "e", "n", "v", ":", "e", "m", "p", "t", "y", "]">>, <<"c", "o", "m", "m", "a", "n", "d", "s", " ", "=">>, <<"d", "e", "p", "s", " ", "=">>, <<"c", "o", "n", "d", "a", "_", "d", "e", "p", "s", " ", "=">>, <<>> >>

\* line 201: f"{base}{ver.replace('.', '')}-{pkg}-cicd"
EnvName(base, ver) ==
    FamilyText(base) \o Remove(ver, ".") \o <<"-">> \o Driver \o <<"-", "c", "i", "c", "d">>

\* lines 199-212 for one version
EnvSection(base, ver) ==
    << <<"#", " ", "R", " ">> \o ver,
       <<"[", "t", "e", "s", "t", "e", "n", "v", ":">> \o EnvName(base, ver) \o <<"]">>,
       <<"c", "o", "m", "m", "a", "n", "d", "s", " ", "=", " ", "{", "[", "t", "e", "s", "t", "e", "n", "v", ":">> \o Driver \o <<"]", "c", "o", "m", "m", "a", "n", "d", "s", "}">>,
       <<"c", "o", "n", "d", "a", "_", "d", "e", "p", "s", " ", "=">>,
       <<" ", " ", " ", " ">> \o BaseName(base) \o <<"=", "=">> \o ver,
       <<" ", " ", " ", " ", "{", "[", "t", "e", "s", "t", "e", "n", "v", "]", "c", "o", "n", "d", "a", "_", "d", "e", "p", "s", "}">>,
       <<>> >>

RECURSIVE EnvSections(_, _)
EnvSections(base, vers) ==
    IF vers = <<>> THEN <<>>
    ELSE EnvSection(base, Head(vers)) \o EnvSections(base, Tail(vers))

\* lines 197-212 for one family
FamilySections(base, vers) ==
    << <<"#">>, <<"#", " ">> \o BaseName(base), <<"#">>, <<>> >>
        \o EnvSections(base, SortedStrs(vers))

\* sorted(subset.items()): 'mro' sorts before 'r'
FamilyOrder == <<"mro", "r">>

\* the list out after the loop of lines 196-212
OutLines(sub) ==
    OutHeader \o FamilySections(FamilyOrder[1], sub[FamilyOrder[1]])
              \o FamilySections(FamilyOrder[2], sub[FamilyOrder[2]])

FamilyEnvNames(base, vers) ==
    LET sorted == SortedStrs(vers) IN [i \in 1..Len(sorted) |-> EnvName(base, sorted[i])]

\* the list envlist after the loop of lines 196-212
EnvList(sub) ==
    FamilyEnvNames(FamilyOrder[1], sub[FamilyOrder[1]])
        \o FamilyEnvNames(FamilyOrder[2], sub[FamilyOrder[2]])

\* lines 223-226: the generated envlist block
EnvListBlock(envlist) ==
    << <<"e", "n", "v", "l", "i", "s", "t", " ", "=">> >>
        \o [i \in 1..Len(envlist) |-> <<" ", " ", " ", " ">> \o envlist[i]]
        \o << <<" ", " ", " ", " ", "e", "m", "p", "t", "y">> >>

\* the position of the line that ends the inner loop of lines 227-229 started
\* after line i: the first later line that does not start with a blank, or 0
\* when the iterator runs out
RECURSIVE BreakLine(_, _)
BreakLine(lines, i) ==
    IF i + 1 > Len(lines) THEN 0
    ELSE IF ~StartsWith(lines[i + 1], <<" ">>) THEN i + 1
    ELSE BreakLine(lines, i + 1)

\* lines 220-230: both loops draw from the one iterator; after the inner
\* loop the variable line holds the line that broke it, or the last line
\* read when the iterator ran out, and line 230 writes it
RECURSIVE CopyLines(_, _, _)
CopyLines(lines, i, envlist) ==
    IF i > Len(lines) THEN <<>>
    ELSE IF StartsWith(lines[i], <<"e", "n", "v", "l", "i", "s", "t">>) THEN
        LET j == BreakLine(lines, i) IN
        IF j = 0 THEN EnvListBlock(envlist) \o <<lines[Len(lines)]>>
        ELSE EnvListBlock(envlist) \o <<lines[j]>> \o CopyLines(lines, j + 1, envlist)
    ELSE <<lines[i]>> \o CopyLines(lines, i + 1, envlist)

\* lines 179-235: build the sections, read the template, write the file
main_emit ==
    /\ pc = "emit"
    /\ \E t \in Templates :
        /\ template' = t
        /\ tox_out' = [exists |-> TRUE,
                       lines |-> CopyLines(t, 1, EnvList(subset)) \o OutLines(subset)]
    /\ pc' = "done"
    /\ UNCHANGED <<family, pkg_idx, resp, r_base_vers, info, subset, pure_vars, log_vars, promo_vars>>

NextTox ==
    \/ main_call
    \/ query_base
    \/ query_pkg
    \/ main_sample
    \/ main_emit

Spec == InitTox /\ [][NextTox]_vars

-----------------------------------------------------------------------------
(* Properties of a run of generate-tox-ini.py                              *)

HasEnvlistLine(lines) == \E i \in 1..Len(lines) : StartsWith(lines[i], <<"e", "n", "v", "l", "i", "s", "t">>)

FirstEnvlistLine(lines) ==
    CHOOSE i \in 1..Len(lines) :
        /\ StartsWith(lines[i], <<"e", "n", "v", "l", "i", "s", "t">>)
        /\ \A j \in 1..(i - 1) : ~StartsWith(lines[j], <<"e", "n", "v", "l", "i", "s", "t">>)

\* a line without its leading blanks
Stripped(line) == Drop(line, SpanLen(line, {" "}) + 1)

\* the entries of the envlist block of a file: the continuation lines that
\* follow its envlist line
RECURSIVE Continuations(_, _)
Continuations(lines, i) ==
    IF i > Len(lines) \/ ~StartsWith(lines[i], <<" ">>) THEN <<>>
    ELSE <<Stripped(lines[i])>> \o Continuations(lines, i + 1)

BlockEntries(lines) == Continuations(lines, FirstEnvlistLine(lines) + 1)

\* C1: the emitted file's envlist block holds exactly the generated names
\* and `empty`, wherever the block sits in the template, and no envlist line
\* of the template survives.
C1_EnvlistBlockReplaced ==
    (pc = "done" /\ HasEnvlistLine(template)) =>
        /\ BlockEntries(tox_out.lines) = EnvList(subset) \o << <<"e", "m", "p", "t", "y">> >>
        /\ \A i \in 1..Len(tox_out.lines) :
               StartsWith(tox_out.lines[i], <<"e", "n", "v", "l", "i", "s", "t">>) => tox_out.lines[i] = <<"e", "n", "v", "l", "i", "s", "t", " ", "=">>

RecordsOf(reply) == IF reply.failed THEN <<>> ELSE reply.records

VersionsOf(reply) == {RecordsOf(reply)[i].version : i \in 1..Len(RecordsOf(reply))}

\* not below the floor in Version order
AtLeastFloor(v) == ~TupleLt(version_key(v), <<3, 4, 3>>)

\* version v meets a written dependency on the base package of family f
DepHolds(v, d, f) ==
    IF d.bare THEN (f = "mro" => version_key(v) = <<3, 4, 3>>)
    ELSE IF d.spec.wild THEN HasPrefix(version_key(v), d.spec.prefix)
    ELSE SpecHolds(v, d.spec)

\* some record of the companion declares a base-package constraint v meets
CompanionAccepts(v, reply, f) ==
    \E i \in 1..Len(RecordsOf(reply)) :
        \E k \in 1..Len(RecordsOf(reply)[i].depends) :
            /\ RecordsOf(reply)[i].depends[k].name = BaseName(f)
            /\ DepHolds(v, RecordsOf(reply)[i].depends[k], f)

Resolved(replies, f) ==
    IF Len(replies) = 1 THEN {}
    ELSE {v \in VersionsOf(replies[1]) :
            /\ AtLeastFloor(v)
            /\ \A c \in 2..Len(replies) : CompanionAccepts(v, replies[c], f)}

\* C5: get_supported_versions returns exactly the base versions of the index
\* that are not below 3.4.3 and that meet, for each companion, the base
\* constraint of at least one of its records; the result is a subset of the
\* queried base versions.
C5_ResolveIsIntersection ==
    (pc = "main" /\ family \in {"r", "mro"}) =>
        /\ Range(info[family]) = Resolved(resp, family)
        /\ Range(info[family]) \subseteq VersionsOf(resp[1])

VersionLe(a, b) == ~TupleLt(version_key(b), version_key(a))

\* C6: the sampled subset of a non-empty supported list contains a version
\* that is oldest and one that is newest in Version order.
C6_SampleHasOldestAndNewest ==
    pc \in {"emit", "done"} =>
        \A f \in {"r", "mro"} :
            info[f] # <<>> =>
                /\ \E v \in subset[f] : \A w \in Range(info[f]) : VersionLe(v, w)
                /\ \E v \in subset[f] : \A w \in Range(info[f]) : VersionLe(w, v)

\* C7: for every outcome of the random pick the subset is part of the list,
\* holds its first and last element, has at most 2 members for a list of at
\* most 2 (none for the empty list) and exactly 3 for a longer list, the
\* third being an interior element.
C7_SampleShape ==
    pc \in {"emit", "done"} =>
        \A f \in {"r", "mro"} :
            LET l == info[f]
                s == subset[f]
                n == Len(l)
            IN /\ s \subseteq Range(l)
               /\ (n = 0 => s = {})
               /\ (n > 0 => l[1] \in s /\ l[n] \in s)
               /\ (n <= 2 => Cardinality(s) <= 2)
               /\ (n >= 3 => /\ Cardinality(s) = 3
                             /\ \E i \in 2..(n - 1) : s = {l[1], l[i], l[n]})

C7_Witness ==
    /\ pc = "emit"
    /\ Len(info.r) = 4
    /\ Len(info.mro) = 3
    /\ Cardinality(subset.r) = 3
    /\ Cardinality(subset.mro) = 3

LastReply == resp[Len(resp)]

\* C8: a query answered with PackagesNotFoundError gives an empty result and
\* the run goes on; a query that fails otherwise aborts the run, and an
\* aborted run has no output file: the file exists only once the run is done.
C8_QueryFailureSemantics ==
    /\ (resp # <<>> /\ LastReply.failed /\ LastReply.exception_name = "PackagesNotFoundError") =>
           /\ pc # "aborted"
           /\ (Len(resp) = 1 => pc = "main" /\ info[family] = <<>>)
           /\ (Len(resp) > 1 => r_base_vers = {})
    /\ (resp # <<>> /\ LastReply.failed /\ LastReply.exception_name # "PackagesNotFoundError") =>
           pc = "aborted"
    /\ pc = "aborted" => ~tox_out.exists
    /\ tox_out.exists => pc = "done"

C8_Witness ==
    /\ pc = "aborted"
    /\ family = "mro"
    /\ Len(resp) = 3
    /\ resp[2] = NotFoundReply
    /\ LastReply = HttpErrorReply
    /\ info.r # <<>>
    /\ ~tox_out.exists

\* C9: every version the index returns for the base package is classified
\* against the floor 3.4.3 in Version order without an error: the versions
\* below it are discarded and the others kept.
C9_FloorFilterTotal ==
    (Len(resp) = 1 /\ ~resp[1].failed /\ resp[1].records # <<>>) =>
        /\ pc # "aborted"
        /\ r_base_vers = {v \in VersionsOf(resp[1]) : AtLeastFloor(v)}

-----------------------------------------------------------------------------
(* get-server-info.py: one run of main                                     *)
(* stdout and stderr are the sequences of items written; the host and the  *)
(* ports taken from the log are left out of the items.                     *)

EnvValues == {"unset", "cas", "http"}

Environs ==
    [CASPROTOCOL : EnvValues, CAS_PROTOCOL : {"unset", "cas"}, REQUIRES_TK : {"unset", "true", "false"}]

InitLog ==
    /\ log_pc = "start"
    /\ iters = 0
    /\ retries \in 0..MaxRetries
    /\ environ \in Environs
    /\ pid_file \in {[given |-> g, written |-> FALSE] : g \in BOOLEAN}
    /\ stdout = <<>>
    /\ stderr = <<>>
    /\ exit_status = NoStatus
    /\ PureIdle
    /\ ToxIdle
    /\ PromoIdle

\* lines 58-63
HostItems ==
    <<"CASHOST", "CAS_HOST", "CAS_BINARY_PORT", "CAS_HTTP_PORT", "CAS_BINARY_URL", "CAS_HTTP_URL">>

\* the six writes of lines 69-74, 76-81, 85-90 and 92-97
ProtocolBlock(protocol, port) ==
    <<"CASPROTOCOL=" \o protocol, "CAS_PROTOCOL=" \o protocol,
      "CASPORT=" \o port, "CAS_PORT=" \o port,
      "CASURL=" \o protocol, "CAS_URL=" \o protocol>>

\* lines 65-97
ProtocolItems(env) ==
    IF env.CASPROTOCOL # "unset" \/ env.CAS_PROTOCOL # "unset" THEN
        LET protocol == IF env.CASPROTOCOL # "unset" THEN env.CASPROTOCOL
                        ELSE env.CAS_PROTOCOL
        IN IF protocol = "cas" THEN ProtocolBlock("cas", "binary")
           ELSE ProtocolBlock(protocol, "http")
    ELSE IF env.REQUIRES_TK # "unset" THEN
        IF env.REQUIRES_TK = "true" THEN ProtocolBlock("cas", "binary")
        ELSE ProtocolBlock("http", "http")
    ELSE <<>>

NotFoundMessage == "ERROR: File not found"
NoLogMessage == "ERROR: Could not locate CAS log file."

\* lines 37-41
log_start ==
    /\ log_pc = "start"
    /\ \E isfile \in BOOLEAN :
        IF isfile THEN
            /\ log_pc' = "loop"
            /\ iters' = 0
            /\ UNCHANGED <<stderr, exit_status>>
        ELSE
            /\ log_pc' = "exited"
            /\ stderr' = Append(stderr, NotFoundMessage)
            /\ exit_status' = 1
            /\ UNCHANGED iters
    /\ UNCHANGED <<retries, environ, pid_file, stdout, pure_vars, tox_vars, promo_vars>>

\* lines 42-111: one turn of the loop `for _ in range(args.retries)`
log_poll ==
    /\ log_pc = "loop"
    /\ iters < retries
    /\ iters' = iters + 1
    /\ IF iters' > retries THEN
           /\ stderr' = Append(stderr, NoLogMessage)
           /\ exit_status' = 1
           /\ log_pc' = "exited"
           /\ UNCHANGED <<stdout, pid_file>>
       ELSE \E found \in BOOLEAN, ssh_ok \in BOOLEAN :
           IF ~found THEN
               /\ log_pc' = "loop"
               /\ UNCHANGED <<stdout, stderr, exit_status, pid_file>>
           ELSE IF ~ssh_ok THEN
               /\ stdout' = stdout \o HostItems \o ProtocolItems(environ)
               /\ exit_status' = 1
               /\ log_pc' = "exited"
               /\ UNCHANGED <<stderr, pid_file>>
           ELSE
               /\ stdout' = stdout \o HostItems \o ProtocolItems(environ) \o <<"CAS_PID">>
               /\ pid_file' = [pid_file EXCEPT !.written = pid_file.given]
               /\ exit_status' = 0
               /\ log_pc' = "exited"
               /\ UNCHANGED stderr
    /\ UNCHANGED <<retries, environ, pure_vars, tox_vars, promo_vars>>

\* the loop of line 42 runs out: main returns and the script ends
log_exhausted ==
    /\ log_pc = "loop"
    /\ iters >= retries
    /\ log_pc' = "exited"
    /\ exit_status' = 0
    /\ UNCHANGED <<iters, retries, environ, pid_file, stdout, stderr, pure_vars, tox_vars, promo_vars>>

NextLog ==
    \/ log_start
    \/ log_poll
    \/ log_exhausted

SpecLog == InitLog /\ [][NextLog]_vars

\* C10: the script polls at most `retries` times; a run whose polls all miss
\* the connection line reports 'ERROR: Could not locate CAS log file.' and
\* exits with status 1, so a run that exits with status 0 has printed the
\* connection variables.
C10_NoSilentSuccess ==
    /\ iters <= retries
    /\ log_pc = "exited" =>
        /\ exit_status = 0 =>
               {"CASHOST", "CAS_HOST", "CAS_BINARY_PORT", "CAS_HTTP_PORT", "CAS_PID"}
                   \subseteq Range(stdout)
        /\ (stdout = <<>> /\ stderr # <<NotFoundMessage>>) =>
               (stderr = <<NoLogMessage>> /\ exit_status = 1)

-----------------------------------------------------------------------------
(* promote-release-candidate.py: one run of main                           *)
(* tags and releases hold the names "rc" (args.tag), "snapshot" (the tag   *)
(* with -rc replaced by -snapshot) and "release" (the tag without -rc);    *)
(* deleted records what the run has deleted.                               *)

InitPromo ==
    /\ promo_pc = "prepare"
    /\ tags \in {{}, {"rc"}, {"rc", "snapshot"}, {"rc", "release"}}
    /\ releases \in {{}, {"rc"}, {"rc", "snapshot"}}
    /\ rc_assets \in 0..MaxAssets
    /\ asset_idx = 0
    /\ uploads = <<>>
    /\ deleted = {}
    /\ PureIdle
    /\ ToxIdle
    /\ LogIdle

\* lines 188-192: git fetch, git checkout and git rev-list of the rc tag;
\* a command that fails raises CalledProcessError
promo_prepare ==
    /\ promo_pc = "prepare"
    /\ \E git_ok \in BOOLEAN :
        promo_pc' = IF git_ok /\ "rc" \in tags THEN "get_release" ELSE "failed"
    /\ UNCHANGED <<tags, releases, rc_assets, asset_idx, uploads, deleted,
                   pure_vars, tox_vars, log_vars>>

\* line 195, get_release: a status of 400 or more raises RuntimeError
promo_get_release ==
    /\ promo_pc = "get_release"
    /\ \E api_ok \in BOOLEAN :
        promo_pc' = IF api_ok /\ "rc" \in releases THEN "push" ELSE "failed"
    /\ UNCHANGED <<tags, releases, rc_assets, asset_idx, uploads, deleted,
                   pure_vars, tox_vars, log_vars>>

\* lines 198-199, git_tag and git_push: git tag fails on an existing tag
promo_tag_push ==
    /\ promo_pc = "push"
    /\ \E push_ok \in BOOLEAN :
        IF "release" \in tags THEN
            /\ promo_pc' = "failed"
            /\ UNCHANGED tags
        ELSE
            /\ tags' = tags \cup {"release"}
            /\ promo_pc' = IF push_ok THEN "create" ELSE "failed"
    /\ UNCHANGED <<releases, rc_assets, asset_idx, uploads, deleted,
                   pure_vars, tox_vars, log_vars>>

\* lines 47-69, create_release up to the call of copy_assets: a status of
\* 400 or more raises RuntimeError
promo_create_release ==
    /\ promo_pc = "create"
    /\ \E status_ok \in BOOLEAN :
        IF status_ok THEN
            /\ releases' = releases \cup {"release"}
            /\ asset_idx' = 1
            /\ promo_pc' = IF rc_assets = 0 THEN "delete_rc" ELSE "copy"
        ELSE
            /\ promo_pc' = "failed"
            /\ UNCHANGED <<releases, asset_idx>>
    /\ UNCHANGED <<tags, rc_assets, uploads, deleted, pure_vars, tox_vars, log_vars>>

\* what one turn of the loop of copy_assets can meet: the upload accepted,
\* the upload answered with an error status, urlopen raising on the
\* download, requests.post raising on the connection
UploadOutcomes == {"ok", "status_error", "download_raised", "upload_raised"}

\* the outcomes on which a turn of copy_assets raises (lines 77-86: the
\* response of requests.post is dropped, its status is never looked at)
CopyRaises(outcome) == outcome \in {"download_raised", "upload_raised"}

\* lines 74-86: one turn of the loop of copy_assets
promo_copy_asset ==
    /\ promo_pc = "copy"
    /\ asset_idx <= rc_assets
    /\ \E outcome \in UploadOutcomes :
        /\ uploads' = Append(uploads, outcome)
        /\ IF CopyRaises(outcome) THEN
               /\ promo_pc' = "failed"
               /\ UNCHANGED asset_idx
           ELSE
               /\ asset_idx' = asset_idx + 1
               /\ promo_pc' = IF asset_idx = rc_assets THEN "delete_rc" ELSE "copy"
    /\ UNCHANGED <<tags, releases, rc_assets, deleted, pure_vars, tox_vars, log_vars>>

\* line 136: del_tags of delete_release(name)
DelTags(name) == IF name = "rc" THEN {"rc", "snapshot"} ELSE {"snapshot"}

\* the order in which git show-ref --tags lists the three tags
ShowRefOrder == <<"release", "rc", "snapshot">>

\* lines 138-146: the first listed tag that is in del_tags, {} when none
FirstDelTag(name) ==
    LET hits == {i \in 1..Len(ShowRefOrder) :
                    ShowRefOrder[i] \in tags /\ ShowRefOrder[i] \in DelTags(name)}
    IN IF hits = {} THEN {}
       ELSE {ShowRefOrder[CHOOSE i \in hits : \A j \in hits : i <= j]}

\* lines 112-146, delete_release(name): the release is deleted when the GET
\* finds it (the status of the DELETE is not looked at), then the first
\* matching tag is deleted locally and on the remote
DeleteRelease(name, next_pc) ==
    \E get_ok \in BOOLEAN, delete_ok \in BOOLEAN, git_ok \in BOOLEAN :
        LET gone == IF name \in releases /\ get_ok /\ delete_ok THEN {name} ELSE {}
            tag == FirstDelTag(name)
        IN /\ releases' = releases \ gone
           /\ IF tag = {} THEN
                  /\ promo_pc' = next_pc
                  /\ deleted' = deleted \cup {<<"release", n>> : n \in gone}
                  /\ UNCHANGED tags
              ELSE IF git_ok THEN
                  /\ promo_pc' = next_pc
                  /\ tags' = tags \ tag
                  /\ deleted' = deleted \cup {<<"release", n>> : n \in gone}
                                        \cup {<<"tag", n>> : n \in tag}
              ELSE
                  /\ promo_pc' = "failed"
                  /\ deleted' = deleted \cup {<<"release", n>> : n \in gone}
                  /\ UNCHANGED tags

\* line 203
promo_delete_rc ==
    /\ promo_pc = "delete_rc"
    /\ DeleteRelease("rc", "delete_snapshot")
    /\ UNCHANGED <<rc_assets, asset_idx, uploads, pure_vars, tox_vars, log_vars>>

\* lines 204-206
promo_delete_snapshot ==
    /\ promo_pc = "delete_snapshot"
    /\ DeleteRelease("snapshot", "done")
    /\ UNCHANGED <<rc_assets, asset_idx, uploads, pure_vars, tox_vars, log_vars>>

NextPromo ==
    \/ promo_prepare
    \/ promo_get_release
    \/ promo_tag_push
    \/ promo_create_release
    \/ promo_copy_asset
    \/ promo_delete_rc
    \/ promo_delete_snapshot

SpecPromo == InitPromo /\ [][NextPromo]_vars

\* C11: the release candidate's release and tags are deleted only after the
\* public release was created and every asset of the release candidate was
\* uploaded to it successfully; when the creation or an upload fails the
\* run stops and the release candidate's release still exists.
C11_DeleteOnlyAfterFullCopy ==
    /\ deleted # {} =>
           /\ "release" \in releases
           /\ Len(uploads) = rc_assets
           /\ \A i \in 1..Len(uploads) : uploads[i] = "ok"
    /\ (\E i \in 1..Len(uploads) : uploads[i] # "ok") =>
           /\ promo_pc = "failed"
           /\ "rc" \in releases
           /\ deleted = {}

====
